---- MODULE Spec2Model ----
(***************************************************************************)
(* A model of monitor/calc_ipmi_energy.py: the rows of the CSV are read    *)
(* into a DataFrame, compute_energy buckets them per minute, builds the    *)
(* minute timeline, reports the gaps (build_gap_report), fills the gaps    *)
(* by the chosen policy and integrates the power into kWh.                 *)
(*                                                                         *)
(* Time is in whole seconds since an epoch.  Watt values up to the filled  *)
(* series are exact rationals <<numerator, denominator>> (the rounding of  *)
(* binary64 is not modelled in the mean and the interpolation); the energy *)
(* integration of lines 223-225 is modelled in IEEE-754 binary64, rounding *)
(* to nearest, ties to even, with numpy's pairwise summation.              *)
(***************************************************************************)
EXTENDS Integers, Sequences, FiniteSets

VARIABLES
    args,       \* the parsed command line: [fill, top_gaps]
    df,         \* the DataFrame read from the CSV: a sequence of rows [ts, p]
    pc,         \* "read" while the CSV is read, then "done" or "error"
    res         \* what compute_energy left: its locals and its Result, or the error raised

vars == <<args, df, pc, res>>

(***************************************************************************)
(* Bounds of the model.                                                    *)
(***************************************************************************)
MaxRows == 3
MaxTopN == 2
MaxSparseRows == 3
MaxMinutes == 60

(***************************************************************************)
(* Exact rational arithmetic on <<n, d>>, d > 0, in lowest terms.          *)
(***************************************************************************)
Abs(x) == IF x < 0 THEN -x ELSE x

RECURSIVE GCD(_, _)
GCD(a, b) == IF b = 0 THEN a ELSE GCD(b, a % b)

Rat(n, d) ==
    LET g == GCD(Abs(n), d)
    IN  IF n = 0 THEN <<0, 1>> ELSE <<(Abs(n) \div g) * (IF n < 0 THEN -1 ELSE 1), d \div g>>

RatAdd(x, y) == Rat(x[1] * y[2] + y[1] * x[2], x[2] * y[2])
RatSub(x, y) == Rat(x[1] * y[2] - y[1] * x[2], x[2] * y[2])
RatMulInt(x, k) == Rat(x[1] * k, x[2])
RatDivInt(x, k) == Rat(x[1], x[2] * k)

(***************************************************************************)
(* Natural numbers of any size: the limbs in base 2^15, least significant  *)
(* first, no zero limb on top; zero is <<>>.                               *)
(***************************************************************************)
LimbBits == 15
Base == 2^LimbBits

Zeros(k) == [i \in 1..k |-> 0]

RECURSIVE BitLen(_)
BitLen(n) == IF n = 0 THEN 0 ELSE 1 + BitLen(n \div 2)

RECURSIVE BigNorm(_)
BigNorm(a) ==
    IF a = <<>> THEN a
    ELSE IF a[Len(a)] # 0 THEN a ELSE BigNorm(SubSeq(a, 1, Len(a) - 1))

RECURSIVE BigFromInt(_)
BigFromInt(n) == IF n = 0 THEN <<>> ELSE <<n % Base>> \o BigFromInt(n \div Base)

BigBitLen(a) == IF a = <<>> THEN 0 ELSE LimbBits * (Len(a) - 1) + BitLen(a[Len(a)])

\* a + b + c, c a carry of 0 or 1
RECURSIVE BigAdd(_, _, _)
BigAdd(a, b, c) ==
    IF a = <<>> /\ b = <<>> THEN (IF c = 0 THEN <<>> ELSE <<c>>)
    ELSE LET x == IF a = <<>> THEN 0 ELSE Head(a)
             y == IF b = <<>> THEN 0 ELSE Head(b)
             s == x + y + c
         IN  <<s % Base>> \o BigAdd(IF a = <<>> THEN a ELSE Tail(a),
                                    IF b = <<>> THEN b ELSE Tail(b), s \div Base)

\* a * f + c for a factor f < Base
RECURSIVE BigMulSmall(_, _, _)
BigMulSmall(a, f, c) ==
    IF a = <<>> THEN BigFromInt(c)
    ELSE LET s == Head(a) * f + c
         IN  <<s % Base>> \o BigMulSmall(Tail(a), f, s \div Base)

\* a * 2^s
BigShl(a, s) ==
    IF a = <<>> THEN a
    ELSE Zeros(s \div LimbBits) \o BigMulSmall(a, 2^(s % LimbBits), 0)

\* the limbs 1..i of a, with the remainder r of the limbs above them, divided
\* by k <= Base: <<quotient limbs, remainder>>
RECURSIVE BigDivFrom(_, _, _, _)
BigDivFrom(a, i, k, r) ==
    IF i = 0 THEN <<(<<>>), r>>
    ELSE LET cur == r * Base + a[i]
             rest == BigDivFrom(a, i - 1, k, cur % k)
         IN  <<rest[1] \o <<cur \div k>>, rest[2]>>

BigDivSmall(a, k) ==
    LET qr == BigDivFrom(a, Len(a), k, 0) IN <<BigNorm(qr[1]), qr[2]>>

\* floor(a / 2^s)
BigShr(a, s) ==
    LET whole == s \div LimbBits
    IN  IF whole >= Len(a) THEN <<>>
        ELSE BigDivSmall(SubSeq(a, whole + 1, Len(a)), 2^(s % LimbBits))[1]

\* bit i of a, bit 0 the least significant
BigBit(a, i) ==
    LET j == i \div LimbBits + 1
    IN  IF j > Len(a) THEN 0 ELSE (a[j] \div 2^(i % LimbBits)) % 2

\* whether one of the s lowest bits of a is 1
BigLowNonzero(a, s) ==
    \E j \in 1..Len(a) :
        \/ j <= s \div LimbBits /\ a[j] # 0
        \/ j = s \div LimbBits + 1 /\ a[j] % 2^(s % LimbBits) # 0

(***************************************************************************)
(* IEEE-754 binary64, positive values and zero.  A value is [m, e]: the    *)
(* significand m, a natural number of exactly Precision bits, times 2^e;   *)
(* zero is [<<>>, 0].  Rounding is to nearest, ties to even.               *)
(***************************************************************************)
Precision == 53

F64Zero == [m |-> <<>>, e |-> 0]

\* m * 2^e (and, with sticky, a little more) rounded to Precision bits
F64Round(m, e, sticky) ==
    LET d == BigBitLen(m) - Precision
    IN  IF m = <<>> THEN F64Zero
        ELSE IF d <= 0 THEN [m |-> BigShl(m, -d), e |-> e + d]
        ELSE LET kept == BigShr(m, d)
                 st == sticky \/ BigLowNonzero(m, d - 1)
                 up == BigBit(m, d - 1) = 1 /\ (st \/ kept[1] % 2 = 1)
                 m2 == IF up THEN BigAdd(kept, <<>>, 1) ELSE kept
             IN  IF BigBitLen(m2) > Precision
                 THEN [m |-> BigShr(m2, 1), e |-> e + d + 1]
                 ELSE [m |-> m2, e |-> e + d]

F64FromInt(n) == F64Round(BigFromInt(n), 0, FALSE)

\* x + y: the exact sum, rounded once
F64Add(x, y) ==
    IF x.m = <<>> THEN y
    ELSE IF y.m = <<>> THEN x
    ELSE LET lo == IF x.e <= y.e THEN x.e ELSE y.e
         IN  F64Round(BigAdd(BigShl(x.m, x.e - lo), BigShl(y.m, y.e - lo), 0), lo, FALSE)

\* x / k for an integer 1 <= k <= Base: the exact quotient, rounded once
F64DivInt(x, k) ==
    LET extra == BitLen(k) + 2
        qr == BigDivSmall(BigShl(x.m, extra), k)
    IN  F64Round(qr[1], x.e - extra, qr[2] # 0)

\* the binary64 nearest to the rational n/d, n >= 0
F64FromRat(r) == F64DivInt(F64FromInt(r[1]), r[2])

(***************************************************************************)
(* numpy's pairwise summation of a[lo+1 .. lo+n] (what Series.sum runs on  *)
(* a contiguous float64 array): fewer than 8 elements are added in order;  *)
(* up to 128 are added into 8 interleaved accumulators, the accumulators   *)
(* are added as a tree and the n % 8 last elements are added in order;     *)
(* more are halved (the first half a multiple of 8).                       *)
(***************************************************************************)
RECURSIVE AddInOrder(_, _, _, _)
AddInOrder(acc, a, lo, n) ==
    IF n = 0 THEN acc ELSE F64Add(AddInOrder(acc, a, lo, n - 1), a[lo + n])

\* accumulator k of 1..8 after the first `blocks` blocks of 8
RECURSIVE Accumulator(_, _, _, _)
Accumulator(a, lo, k, blocks) ==
    IF blocks = 1 THEN a[lo + k]
    ELSE F64Add(Accumulator(a, lo, k, blocks - 1), a[lo + 8 * (blocks - 1) + k])

RECURSIVE PairwiseSum(_, _, _)
PairwiseSum(a, lo, n) ==
    IF n < 8 THEN AddInOrder(F64Zero, a, lo, n)
    ELSE IF n <= 128
    THEN LET blocks == n \div 8
             r == [k \in 1..8 |-> Accumulator(a, lo, k, blocks)]
             tree == F64Add(F64Add(F64Add(r[1], r[2]), F64Add(r[3], r[4])),
                            F64Add(F64Add(r[5], r[6]), F64Add(r[7], r[8])))
         IN  AddInOrder(tree, a, lo + 8 * blocks, n % 8)
    ELSE LET half == n \div 2
             n2 == half - (half % 8)
         IN  F64Add(PairwiseSum(a, lo, n2), PairwiseSum(a, lo + n2, n - n2))

(***************************************************************************)
(* The input.  A row of the CSV is [ts, p]: the text of its time column    *)
(* and of its power column, each modelled by the value it parses to, or    *)
(* Unparsable.  The time column and the power column are present, and the  *)
(* power column is named on the command line.                              *)
(***************************************************************************)
Unparsable == -1
NaT == -1
NaN == <<>>

MinuteSecs == 60
WattMinutesPerKwh == 60000

Powers == {100, 300}
Fills == {"locf", "interp", "none"}

\* the rows the CSV may hold: readings, of which two share a minute, two are
\* on minutes that follow each other and the others leave minutes without a
\* reading; a row whose timestamp does not parse; a row whose power does not
\* parse
CsvRows ==
    {[ts |-> 0, p |-> 100], [ts |-> 30, p |-> 300], [ts |-> 60, p |-> 300],
     [ts |-> 120, p |-> 100], [ts |-> 240, p |-> 300], [ts |-> 420, p |-> 100],
     [ts |-> Unparsable, p |-> 100], [ts |-> 0, p |-> Unparsable]}

\* the minute steps between two rows of a sparse export
Deltas == {2, 3, 4, 16, 17, 121, 122}
SteadyWatts == {100, 300, 600}

(***************************************************************************)
(* pandas, as compute_energy uses it.  A Series is a sequence of [t, v],   *)
(* t the index and v a rational or NaN.                                    *)
(***************************************************************************)
\* the function f on 1..n as a sequence
ToSeq(f) == SubSeq(f, 1, Len(f))

Min(S) == CHOOSE x \in S : \A y \in S : x <= y
Max(S) == CHOOSE x \in S : \A y \in S : x >= y

\* pd.to_datetime(..., utc=True, errors="coerce") and tz_convert: the
\* instant, or NaT
ToDatetime(cell) == IF cell = Unparsable THEN NaT ELSE cell

\* pd.to_numeric(..., errors="coerce")
ToNumeric(cell) == IF cell = Unparsable THEN NaN ELSE <<cell, 1>>

\* dt.floor("min")
FloorMinute(t) == t - (t % MinuteSecs)

\* df.dropna(subset=["_ts", "_p"]): the rows kept, in the order of the frame
RECURSIVE DropNa(_)
DropNa(rows) ==
    IF rows = <<>> THEN <<>>
    ELSE IF Head(rows).ts = NaT \/ Head(rows).p = NaN THEN DropNa(Tail(rows))
    ELSE <<Head(rows)>> \o DropNa(Tail(rows))

\* sort_values("_ts"): ascending, rows of equal _ts in the order of the frame
RECURSIVE InsertByTs(_, _)
InsertByTs(sorted, row) ==
    IF sorted = <<>> THEN <<row>>
    ELSE IF sorted[Len(sorted)].ts <= row.ts THEN sorted \o <<row>>
    ELSE InsertByTs(SubSeq(sorted, 1, Len(sorted) - 1), row) \o <<sorted[Len(sorted)]>>

RECURSIVE SortByTs(_)
SortByTs(rows) ==
    IF rows = <<>> THEN <<>>
    ELSE InsertByTs(SortByTs(SubSeq(rows, 1, Len(rows) - 1)), rows[Len(rows)])

\* the sum of the _p of the rows of minute m, in the order of the rows
RECURSIVE GroupSum(_, _)
GroupSum(rows, m) ==
    IF rows = <<>> THEN <<0, 1>>
    ELSE IF Head(rows).minute = m THEN RatAdd(Head(rows).p, GroupSum(Tail(rows), m))
    ELSE GroupSum(Tail(rows), m)

GroupCount(rows, m) == Cardinality({i \in 1..Len(rows) : rows[i].minute = m})

\* a variant that takes the first value of the group for its mean
GroupFirst(rows, m) == rows[Min({i \in 1..Len(rows) : rows[i].minute = m})].p

\* the mean of one group
GroupMean(rows, m) == RatDivInt(GroupSum(rows, m), GroupCount(rows, m))

\* the elements of a set of numbers, ascending
RECURSIVE Ascending(_)
Ascending(S) == IF S = {} THEN <<>> ELSE <<Min(S)>> \o Ascending(S \ {Min(S)})

\* df.groupby("_minute")["_p"].mean().sort_index()
GroupByMinuteMean(rows) ==
    LET keys == Ascending({rows[i].minute : i \in 1..Len(rows)})
    IN  ToSeq([k \in 1..Len(keys) |-> [t |-> keys[k], v |-> GroupMean(rows, keys[k])]])

\* a variant whose range leaves the end out
DateRangeOpenEnd(start, end) ==
    ToSeq([i \in 1..((end - start) \div MinuteSecs) |-> start + (i - 1) * MinuteSecs])

\* pd.date_range(start, end, freq="1min"): start, start + 1 min, ... up to end
DateRange(start, end) ==
    ToSeq([i \in 1..((end - start) \div MinuteSecs + 1) |-> start + (i - 1) * MinuteSecs])

\* per_min.reindex(full_idx): the value of the key, NaN where there is none
Reindex(per_min, full_idx) ==
    ToSeq([i \in 1..Len(full_idx) |->
        [t |-> full_idx[i],
         v |-> IF \E k \in 1..Len(per_min) : per_min[k].t = full_idx[i]
               THEN per_min[CHOOSE k \in 1..Len(per_min) : per_min[k].t = full_idx[i]].v
               ELSE NaN]])

\* the positions of the series that hold a value
NotNa(series) == {i \in 1..Len(series) : series[i].v # NaN}

\* a variant that fills backward: NaN takes the first value after it
Bfill(series) ==
    LET valid == NotNa(series)
    IN  ToSeq([i \in 1..Len(series) |->
            LET after == {k \in valid : k >= i}
            IN  [t |-> series[i].t,
                 v |-> IF after = {} THEN NaN ELSE series[Min(after)].v]])

\* series.ffill(): NaN takes the last value before it, if there is one
Ffill(series) ==
    LET valid == NotNa(series)
    IN  ToSeq([i \in 1..Len(series) |->
            LET before == {k \in valid : k <= i}
            IN  [t |-> series[i].t,
                 v |-> IF before = {} THEN NaN ELSE series[Max(before)].v]])

\* a variant that gives every NaN between two values their midpoint
InterpolateMidpoint(series) ==
    LET valid == NotNa(series)
    IN  ToSeq([i \in 1..Len(series) |->
            LET before == {k \in valid : k <= i}
                after == {k \in valid : k >= i}
            IN  [t |-> series[i].t,
                 v |-> IF before = {} THEN NaN
                       ELSE IF after = {} THEN series[Max(before)].v
                       ELSE IF i \in valid THEN series[i].v
                       ELSE RatDivInt(RatAdd(series[Max(before)].v, series[Min(after)].v), 2)]])

\* series.interpolate(method="time"): numpy.interp over the index of the
\* values present.  Between two of them, at times x0 < x1 with values y0
\* and y1, a NaN at time x becomes slope * (x - x0) + y0, the slope being
\* (y1 - y0) / (x1 - x0); after the last of them it takes the last value;
\* before the first it stays NaN.
Interpolate(series) ==
    LET valid == NotNa(series)
    IN  ToSeq([i \in 1..Len(series) |->
            LET before == {k \in valid : k <= i}
                after == {k \in valid : k >= i}
            IN  [t |-> series[i].t,
                 v |-> IF before = {} THEN NaN
                       ELSE IF after = {} THEN series[Max(before)].v
                       ELSE IF i \in valid THEN series[i].v
                       ELSE LET lo == series[Max(before)]
                                hi == series[Min(after)]
                                dy == RatSub(hi.v, lo.v)
                                slope == RatDivInt(dy, hi.t - lo.t)
                            IN  RatAdd(RatMulInt(slope, series[i].t - lo.t), lo.v)]])

\* series.dropna(): the entries that hold a value, in order
DropNaN(series) ==
    LET valid == NotNa(series)
    IN  ToSeq([k \in 1..Cardinality(valid) |->
            series[CHOOSE i \in valid : Cardinality({j \in valid : j <= i}) = k]])

(***************************************************************************)
(* build_gap_report                                                        *)
(***************************************************************************)
\* a variant whose inner loop stops after one step
RunEndOneStep(mm, i) == i + 1

\* the inner while loop: from a missing position i, the first position
\* j > i that is not missing, or len(mm) + 1
RunEnd(mm, i) ==
    LET stops == {j \in i..Len(mm) : ~mm[j]}
    IN  IF stops = {} THEN Len(mm) + 1 ELSE Min(stops)

\* the outer while loop from position i on: the gaps (start, end, minutes)
\* in the order they are met
RECURSIVE ScanGaps(_, _, _)
ScanGaps(full_idx, mm, i) ==
    LET missing == {k \in i..Len(mm) : mm[k]}
    IN  IF missing = {} THEN <<>>
        ELSE LET first == Min(missing)
                 j == RunEnd(mm, first)
             IN  <<(<<full_idx[first], full_idx[j - 1], j - first>>)>>
                     \o ScanGaps(full_idx, mm, j)

\* the length buckets: (name, a, b)
Buckets == << <<"1-2", 1, 2>>, <<"3-15", 3, 15>>, <<"16-120", 16, 120>>,
              <<">120", 121, 10^9>> >>

BucketNames == {Buckets[k][1] : k \in 1..Len(Buckets)}

\* a variant whose lower boundary is exclusive
BucketOfAbove(length) ==
    LET fits == {k \in 1..Len(Buckets) : Buckets[k][2] < length /\ length <= Buckets[k][3]}
    IN  IF fits = {} THEN 0 ELSE Min(fits)

\* the inner for loop with its break: the first bucket with a <= length <= b,
\* or 0 when there is none
BucketOf(length) ==
    LET fits == {k \in 1..Len(Buckets) : Buckets[k][2] <= length /\ length <= Buckets[k][3]}
    IN  IF fits = {} THEN 0 ELSE Min(fits)

\* the outer for loop: [counts, minutes] after the gaps 1..n
RECURSIVE Classify(_, _)
Classify(gaps, n) ==
    IF n = 0 THEN [counts |-> [k \in BucketNames |-> 0], minutes |-> [k \in BucketNames |-> 0]]
    ELSE LET sofar == Classify(gaps, n - 1)
             b == BucketOf(gaps[n][3])
         IN  IF b = 0 THEN sofar
             ELSE [counts |-> [sofar.counts EXCEPT ![Buckets[b][1]] = @ + 1],
                   minutes |-> [sofar.minutes EXCEPT ![Buckets[b][1]] = @ + gaps[n][3]]]

\* sorted(gaps, key=lambda x: x[2], reverse=True): by length, the longest
\* first; the sort is stable, so gaps of one length keep their order
RECURSIVE InsertByLengthDesc(_, _)
InsertByLengthDesc(sorted, gap) ==
    IF sorted = <<>> THEN <<gap>>
    ELSE IF sorted[Len(sorted)][3] >= gap[3] THEN sorted \o <<gap>>
    ELSE InsertByLengthDesc(SubSeq(sorted, 1, Len(sorted) - 1), gap) \o <<sorted[Len(sorted)]>>

\* a variant that sorts ascending and reverses: gaps of one length swap
RECURSIVE SortedAscReversed(_)
SortedAscReversed(gaps) ==
    IF gaps = <<>> THEN <<>>
    ELSE LET longest == Max({gaps[i][3] : i \in 1..Len(gaps)})
             last == Max({i \in 1..Len(gaps) : gaps[i][3] = longest})
         IN  <<gaps[last]>>
                 \o SortedAscReversed(SubSeq(gaps, 1, last - 1) \o SubSeq(gaps, last + 1, Len(gaps)))

RECURSIVE SortedByLengthDesc(_)
SortedByLengthDesc(gaps) ==
    IF gaps = <<>> THEN <<>>
    ELSE InsertByLengthDesc(SortedByLengthDesc(SubSeq(gaps, 1, Len(gaps) - 1)), gaps[Len(gaps)])

\* the slice s[:n], n >= 0
Take(s, n) == SubSeq(s, 1, IF n < Len(s) THEN n ELSE Len(s))

build_gap_report(full_idx, series, top_n) ==
    LET mm == ToSeq([i \in 1..Len(series) |-> series[i].v = NaN])
        minutes_total == Len(full_idx)
        minutes_missing == Cardinality({i \in 1..Len(mm) : mm[i]})
        gaps == ScanGaps(full_idx, mm, 1)
        classes == Classify(gaps, Len(gaps))
    IN  [gap_count |-> Len(gaps),
         minutes_missing |-> minutes_missing,
         missing_pct |-> IF minutes_total # 0 THEN Rat(minutes_missing * 100, minutes_total)
                         ELSE <<0, 1>>,
         bucket_counts |-> classes.counts,
         bucket_minutes |-> classes.minutes,
         gaps |-> gaps,
         largest_gaps |-> Take(SortedByLengthDesc(gaps), top_n)]

(***************************************************************************)
(* compute_energy                                                          *)
(***************************************************************************)
\* a variant without the locf branch
FillSeriesNoLocf(series, fill) ==
    IF fill = "interp" THEN Ffill(Interpolate(series))
    ELSE DropNaN(series)

\* the fill policy
FillSeries(series, fill) ==
    IF fill = "locf" THEN Ffill(series)
    ELSE IF fill = "interp" THEN Ffill(Interpolate(series))
    ELSE DropNaN(series)

\* the values of the filled series as its float64 array holds them
Float64Values(filled) == ToSeq([i \in 1..Len(filled) |-> F64FromRat(filled[i].v)])

\* float((filled / 60000.0).sum())
TotalKwh(values) ==
    PairwiseSum(ToSeq([i \in 1..Len(values) |-> F64DivInt(values[i], WattMinutesPerKwh)]),
                0, Len(values))

\* float(filled.mean())
AvgWatts(values) == F64DivInt(PairwiseSum(values, 0, Len(values)), Len(values))

NoResult == <<>>

Raise(message) ==
    [raised |-> message, per_min |-> <<>>, full_idx |-> <<>>, series |-> <<>>,
     gaps |-> <<>>, filled |-> <<>>, result |-> NoResult]

\* the rows with _ts and _p parsed
Parsed(frame) ==
    ToSeq([i \in 1..Len(frame) |->
               [ts |-> ToDatetime(frame[i].ts), p |-> ToNumeric(frame[i].p)]])

\* a variant without the check of the timestamps
ParseErrorRowsOnly(frame) ==
    IF DropNa(Parsed(frame)) = <<>>
    THEN "No valid rows after parsing timestamps and power values."
    ELSE ""

\* the exception raised on the way to the buckets, or "" when there is none
ParseError(frame) ==
    IF \A i \in 1..Len(frame) : ToDatetime(frame[i].ts) = NaT
    THEN "All timestamps failed to parse. Check the timestamp format and --timecol."
    ELSE IF DropNa(Parsed(frame)) = <<>>
    THEN "No valid rows after parsing timestamps and power values."
    ELSE ""

\* the valid rows, sorted, each with its minute
ValidRows(frame) ==
    LET rows == SortByTs(DropNa(Parsed(frame)))
    IN  ToSeq([i \in 1..Len(rows) |->
            [ts |-> rows[i].ts, p |-> rows[i].p, minute |-> FloorMinute(rows[i].ts)]])

compute_energy(frame, fill, top_gaps) ==
    LET error == ParseError(frame)
    IN  IF error # "" THEN Raise(error)
    ELSE LET per_min == GroupByMinuteMean(ValidRows(frame))
             start == Min({per_min[k].t : k \in 1..Len(per_min)})
             end == Max({per_min[k].t : k \in 1..Len(per_min)})
             full_idx == DateRange(start, end)
             series == Reindex(per_min, full_idx)
             gap_report == build_gap_report(full_idx, series, top_gaps)
             filled == FillSeries(series, fill)
             values == Float64Values(filled)
         IN  IF filled = <<>>
             THEN Raise("No data left after applying the selected fill policy.")
             ELSE [raised |-> "", per_min |-> per_min, full_idx |-> full_idx,
                   series |-> series, gaps |-> gap_report.gaps, filled |-> filled,
                   result |-> [start |-> start, end |-> end,
                               minutes_total |-> Len(full_idx),
                               avg_watts |-> AvgWatts(values),
                               total_kwh |-> TotalKwh(values),
                               gap_report |-> [f \in DOMAIN gap_report \ {"gaps"} |-> gap_report[f]]]]

(***************************************************************************)
(* The run: the command line is parsed, the CSV is read row by row, and    *)
(* compute_energy runs on the frame.                                       *)
(***************************************************************************)
Init ==
    /\ args \in [fill : Fills, top_gaps : 0..MaxTopN]
    /\ df = <<>>
    /\ pc = "read"
    /\ res = Raise("")

\* a run with --fill none: the gap report is built before the fill policy
\* is applied
InitNoFill ==
    /\ args \in [fill : {"none"}, top_gaps : 0..MaxTopN]
    /\ df = <<>>
    /\ pc = "read"
    /\ res = Raise("")

\* pd.read_csv: one more row of the file
ReadRow ==
    /\ pc = "read"
    /\ Len(df) < MaxRows
    /\ \E row \in CsvRows : df' = Append(df, row)
    /\ UNCHANGED <<args, pc, res>>

\* one more row of an export that has a reading on some minutes only, in
\* order of time
ReadSparseRow ==
    /\ pc = "read"
    /\ Len(df) < MaxSparseRows
    /\ IF df = <<>>
       THEN \E p \in Powers : df' = <<[ts |-> 0, p |-> p]>>
       ELSE \E d \in Deltas :
                df' = Append(df, [ts |-> df[Len(df)].ts + d * MinuteSecs, p |-> df[1].p])
    /\ UNCHANGED <<args, pc, res>>

\* one more row of an export that has a reading of one power on every minute
ReadSteadyRow ==
    /\ pc = "read"
    /\ Len(df) < MaxMinutes
    /\ IF df = <<>>
       THEN \E p \in SteadyWatts : df' = <<[ts |-> 0, p |-> p]>>
       ELSE df' = Append(df, [ts |-> df[Len(df)].ts + MinuteSecs, p |-> df[1].p])
    /\ UNCHANGED <<args, pc, res>>

\* main: compute_energy on the frame read; an exception ends the run
ComputeEnergy ==
    /\ pc = "read"
    /\ res' = compute_energy(df, args.fill, args.top_gaps)
    /\ pc' = IF res'.raised = "" THEN "done" ELSE "error"
    /\ UNCHANGED <<args, df>>

Next == ReadRow \/ ComputeEnergy
Spec == Init /\ [][Next]_vars

NextSparse == ReadSparseRow \/ ComputeEnergy
SpecSparse == InitNoFill /\ [][NextSparse]_vars

NextSteady == ReadSteadyRow \/ ComputeEnergy
SpecSteady == Init /\ [][NextSteady]_vars

(***************************************************************************)
(* What the claims are stated with: the input as the CSV holds it.         *)
(***************************************************************************)
\* the rows of the frame whose timestamp and power both parse
Survivors == {i \in 1..Len(df) : df[i].ts # Unparsable /\ df[i].p # Unparsable}

\* the start of the minute a timestamp lies in
MinuteOf(t) == (t \div 60) * 60

\* the minutes that have a surviving row
SampledMinutes == {MinuteOf(df[i].ts) : i \in Survivors}

Ran == pc # "read"
Done == pc = "done"

\* the positions of the aligned series that are missing
MissingAt == {i \in 1..Len(res.series) : res.series[i].v = NaN}

(***************************************************************************)
(* C1: whenever a row survives parsing, compute_energy returns, and its    *)
(* timeline is every minute from the least to the greatest bucket key:     *)
(* minutes_total is (end - start) in minutes plus 1, an aligned entry is   *)
(* missing exactly where the minute has no bucket, and the first and the   *)
(* last entries are present.                                               *)
(***************************************************************************)
C1_BucketKeys == {res.per_min[k].t : k \in 1..Len(res.per_min)}

C1_WindowInvariant ==
    (Ran /\ Survivors # {}) =>
        /\ Done
        /\ res.result.start = Min(C1_BucketKeys)
        /\ res.result.end = Max(C1_BucketKeys)
        /\ res.result.minutes_total = Len(res.full_idx)
        /\ res.result.minutes_total * 60 = res.result.end - res.result.start + 60
        /\ res.full_idx[1] = res.result.start
        /\ res.full_idx[Len(res.full_idx)] = res.result.end
        /\ \A i \in 1..(Len(res.full_idx) - 1) : res.full_idx[i + 1] = res.full_idx[i] + 60
        /\ Len(res.series) = Len(res.full_idx)
        /\ \A i \in 1..Len(res.series) :
              /\ res.series[i].t = res.full_idx[i]
              /\ res.series[i].v = NaN <=> res.full_idx[i] \notin C1_BucketKeys
              /\ res.series[i].v # NaN =>
                    \E k \in 1..Len(res.per_min) :
                        res.per_min[k] = [t |-> res.full_idx[i], v |-> res.series[i].v]
        /\ res.series[1].v # NaN
        /\ res.series[Len(res.series)].v # NaN

C1_Witness ==
    /\ Done
    /\ Len(res.full_idx) >= 5
    /\ Cardinality(MissingAt) >= 2
    /\ Len(res.per_min) = 3

(***************************************************************************)
(* C2: the gaps of the scan are the maximal runs of missing minutes: each  *)
(* holds its first minute, its last minute and its length, all its minutes *)
(* are missing, the minutes next to it are present, every missing minute   *)
(* lies in exactly one gap, and the lengths add up to minutes_missing.     *)
(***************************************************************************)
RECURSIVE C2_SumLengths(_)
C2_SumLengths(gaps) == IF gaps = <<>> THEN 0 ELSE Head(gaps)[3] + C2_SumLengths(Tail(gaps))

\* the positions of the timeline a gap covers
C2_Covers(g) == {i \in 1..Len(res.full_idx) : g[1] <= res.full_idx[i] /\ res.full_idx[i] <= g[2]}

C2_GapCoverage ==
    Done =>
        /\ \A n \in 1..Len(res.gaps) :
              LET g == res.gaps[n]
              IN  /\ g[1] <= g[2]
                  /\ g[3] >= 1
                  /\ Cardinality(C2_Covers(g)) = g[3]
                  /\ C2_Covers(g) \subseteq MissingAt
                  /\ \E i \in MissingAt : res.full_idx[i] = g[1]
                  /\ \E i \in MissingAt : res.full_idx[i] = g[2]
                  /\ \A i \in 1..Len(res.full_idx) :
                        (res.full_idx[i] = g[1] - 60 \/ res.full_idx[i] = g[2] + 60)
                            => i \notin MissingAt
        /\ \A i \in MissingAt :
              Cardinality({n \in 1..Len(res.gaps) : i \in C2_Covers(res.gaps[n])}) = 1
        /\ \A n \in 1..(Len(res.gaps) - 1) : res.gaps[n][2] + 60 < res.gaps[n + 1][1]
        /\ res.result.gap_report.gap_count = Len(res.gaps)
        /\ res.result.gap_report.minutes_missing = Cardinality(MissingAt)
        /\ C2_SumLengths(res.gaps) = res.result.gap_report.minutes_missing

C2_Witness ==
    /\ Done
    /\ Len(res.gaps) = 2
    /\ res.gaps[1][3] = 3
    /\ res.gaps[2][3] = 2

(***************************************************************************)
(* C3: after the fill, under locf and interp the filled series has a value *)
(* on every minute of the timeline and no missing marker; under none its   *)
(* index is the minutes of the timeline that were present.                 *)
(***************************************************************************)
C3_FillTotality ==
    Done =>
        /\ \A i \in 1..Len(res.filled) : res.filled[i].v # NaN
        /\ args.fill \in {"locf", "interp"} =>
              /\ Len(res.filled) = Len(res.full_idx)
              /\ \A i \in 1..Len(res.filled) : res.filled[i].t = res.full_idx[i]
        /\ args.fill = "none" =>
              /\ {res.filled[i].t : i \in 1..Len(res.filled)}
                    = {res.series[i].t : i \in 1..Len(res.series) \ MissingAt}
              /\ \A i \in 1..(Len(res.filled) - 1) : res.filled[i].t < res.filled[i + 1].t
              /\ {res.filled[i].t : i \in 1..Len(res.filled)}
                    \subseteq {res.full_idx[i] : i \in 1..Len(res.full_idx)}

C3_Witness ==
    /\ Done
    /\ args.fill = "interp"
    /\ Cardinality(MissingAt) >= 3
    /\ Len(res.filled) = Len(res.full_idx)

C3_WitnessDrop ==
    /\ Done
    /\ args.fill = "none"
    /\ MissingAt # {}
    /\ Len(res.filled) < Len(res.full_idx)

(***************************************************************************)
(* C4: total_kwh is the sum of the watt values of the filled series        *)
(* divided by 60000, as a float64: in particular 60 minutes at 600 W with  *)
(* a sample on every minute mark give 0.6, the float64 nearest to 3/5.     *)
(***************************************************************************)
RECURSIVE C4_SumWatts(_, _)
C4_SumWatts(filled, n) ==
    IF n = 0 THEN <<0, 1>> ELSE RatAdd(C4_SumWatts(filled, n - 1), filled[n].v)

\* the scenario of the claim: 600 W on 60 consecutive minute marks
C4_SixtyMinutesAt600W ==
    /\ Done
    /\ Len(df) = 60
    /\ \A i \in 1..Len(df) : df[i].p = 600 /\ df[i].ts = (i - 1) * 60

C4_EnergyIntegration ==
    Done =>
        /\ res.result.total_kwh
               = F64FromRat(RatDivInt(C4_SumWatts(res.filled, Len(res.filled)), 60000))
        /\ C4_SixtyMinutesAt600W => res.result.total_kwh = F64FromRat(<<3, 5>>)

(***************************************************************************)
(* C5: the buckets are the minutes that hold a valid sample, one entry     *)
(* each, in ascending order, and the value of an entry is the sum of the   *)
(* power of the valid samples of its minute divided by their number,       *)
(* wherever those samples stand in the input.                              *)
(***************************************************************************)
\* the surviving rows of minute m
C5_SamplesOf(m) == {i \in Survivors : MinuteOf(df[i].ts) = m}

RECURSIVE C5_SumPower(_)
C5_SumPower(S) ==
    IF S = {} THEN 0 ELSE LET i == CHOOSE x \in S : TRUE IN df[i].p + C5_SumPower(S \ {i})

C5_BucketMean ==
    Done =>
        /\ {res.per_min[k].t : k \in 1..Len(res.per_min)} = SampledMinutes
        /\ Len(res.per_min) = Cardinality(SampledMinutes)
        /\ \A k \in 1..(Len(res.per_min) - 1) : res.per_min[k].t < res.per_min[k + 1].t
        /\ \A k \in 1..Len(res.per_min) :
              LET samples == C5_SamplesOf(res.per_min[k].t)
              IN  RatMulInt(res.per_min[k].v, Cardinality(samples))
                      = <<C5_SumPower(samples), 1>>

C5_Witness ==
    /\ Done
    /\ \E i, j \in Survivors :
          /\ i < j
          /\ df[i].ts > df[j].ts
          /\ MinuteOf(df[i].ts) = MinuteOf(df[j].ts)
          /\ {df[i].p, df[j].p} = {100, 300}
          /\ Cardinality(C5_SamplesOf(MinuteOf(df[i].ts))) = 2
          /\ \E k \in 1..Len(res.per_min) :
                res.per_min[k] = [t |-> MinuteOf(df[i].ts), v |-> <<200, 1>>]

(***************************************************************************)
(* C6: every gap has its length in exactly one of the ranges 1-2, 3-15,    *)
(* 16-120 and above 120, bucket_counts counts under each of the four names *)
(* the gaps whose length is in its range, and the four counts add up to    *)
(* gap_count.                                                              *)
(***************************************************************************)
C6_Names == {"1-2", "3-15", "16-120", ">120"}

C6_InRange(name, length) ==
    CASE name = "1-2" -> 1 <= length /\ length <= 2
      [] name = "3-15" -> 3 <= length /\ length <= 15
      [] name = "16-120" -> 16 <= length /\ length <= 120
      [] name = ">120" -> length > 120

C6_BucketCompleteness ==
    Done =>
        LET counts == res.result.gap_report.bucket_counts
        IN  /\ DOMAIN counts = C6_Names
            /\ \A n \in 1..Len(res.gaps) :
                  /\ res.gaps[n][3] >= 1
                  /\ Cardinality({name \in C6_Names : C6_InRange(name, res.gaps[n][3])}) = 1
            /\ \A name \in C6_Names :
                  counts[name]
                      = Cardinality({n \in 1..Len(res.gaps) : C6_InRange(name, res.gaps[n][3])})
            /\ counts["1-2"] + counts["3-15"] + counts["16-120"] + counts[">120"]
                   = res.result.gap_report.gap_count
            /\ res.result.gap_report.gap_count = Len(res.gaps)

C6_Witness ==
    /\ Done
    /\ Len(res.gaps) = 2
    /\ res.gaps[1][3] = 121
    /\ res.gaps[2][3] = 15
    /\ res.result.gap_report.bucket_counts[">120"] = 1
    /\ res.result.gap_report.bucket_counts["3-15"] = 1

(***************************************************************************)
(* C7: largest_gaps holds min(N, gap_count) of the gaps, N being the       *)
(* top-N count asked for; none of the gaps left out is longer than one it  *)
(* holds; its gaps are in descending order of length, and two of one       *)
(* length are in the order of their start.                                 *)
(***************************************************************************)
C7_LargestGaps ==
    Done =>
        LET largest == res.result.gap_report.largest_gaps
            kept == {largest[n] : n \in 1..Len(largest)}
            all == {res.gaps[n] : n \in 1..Len(res.gaps)}
        IN  /\ Len(largest) = IF args.top_gaps < Len(res.gaps) THEN args.top_gaps
                              ELSE Len(res.gaps)
            /\ kept \subseteq all
            /\ Cardinality(kept) = Len(largest)
            /\ \A g \in all \ kept : \A l \in kept : l[3] >= g[3]
            /\ \A n \in 1..(Len(largest) - 1) :
                  \/ largest[n][3] > largest[n + 1][3]
                  \/ /\ largest[n][3] = largest[n + 1][3]
                     /\ largest[n][1] < largest[n + 1][1]

C7_Witness ==
    /\ Done
    /\ args.top_gaps = 2
    /\ Len(res.gaps) = 2
    /\ res.gaps[1][3] = res.gaps[2][3]
    /\ res.result.gap_report.largest_gaps = res.gaps

C7_WitnessReordered ==
    /\ Done
    /\ args.top_gaps = 1
    /\ Len(res.gaps) = 2
    /\ res.result.gap_report.largest_gaps = <<res.gaps[2]>>

(***************************************************************************)
(* C8, as the spec states it: when no row has both a timestamp and a power *)
(* that parse, compute_energy raises the error of an input with no valid   *)
(* row, and returns no Result.                                             *)
(***************************************************************************)
EmptyInputError == "No valid rows after parsing timestamps and power values."
UnparsableTimestampsError ==
    "All timestamps failed to parse. Check the timestamp format and --timecol."

C8_EmptyInputError ==
    (Ran /\ Survivors = {}) =>
        /\ pc = "error"
        /\ res.raised = EmptyInputError
        /\ res.result = NoResult

(***************************************************************************)
(* C8, amended: when no row has both a timestamp and a power that parse,   *)
(* compute_energy raises and returns no Result; the error is that of       *)
(* unparsable timestamps when no timestamp parses at all (an input of no   *)
(* rows included), and that of an input with no valid row otherwise.       *)
(***************************************************************************)
C8_NoSurvivorFails ==
    (Ran /\ Survivors = {}) =>
        /\ pc = "error"
        /\ res.result = NoResult
        /\ res.raised = IF \A i \in 1..Len(df) : df[i].ts = Unparsable
                        THEN UnparsableTimestampsError
                        ELSE EmptyInputError

C8_Witness ==
    /\ pc = "error"
    /\ res.raised = EmptyInputError
    /\ Survivors = {}
    /\ \E i, j \in 1..Len(df) :
          /\ df[i].ts = Unparsable /\ df[i].p # Unparsable
          /\ df[j].ts # Unparsable /\ df[j].p = Unparsable

(***************************************************************************)
(* C9: under locf every missing minute of the timeline takes the value of  *)
(* the nearest present minute before it, every present minute keeps its    *)
(* value, and no minute stays missing.                                     *)
(***************************************************************************)
C9_CarryForward ==
    (Done /\ args.fill = "locf") =>
        /\ Len(res.filled) = Len(res.series)
        /\ \A k \in 1..Len(res.series) :
              /\ res.filled[k].t = res.series[k].t
              /\ res.filled[k].v # NaN
              /\ k \notin MissingAt => res.filled[k].v = res.series[k].v
              /\ k \in MissingAt =>
                    \E i \in 1..(k - 1) :
                        /\ i \notin MissingAt
                        /\ \A m \in (i + 1)..k : m \in MissingAt
                        /\ res.filled[k].v = res.series[i].v

C9_Witness ==
    /\ Done
    /\ args.fill = "locf"
    /\ \E k \in MissingAt :
          /\ k + 1 \in MissingAt
          /\ k + 2 \in 1..Len(res.series) \ MissingAt
          /\ res.filled[k + 1].v = <<100, 1>>
          /\ res.series[k + 2].v = <<300, 1>>

(***************************************************************************)
(* C10: under interp a missing minute at position k, between the nearest   *)
(* present minute before it at position i with value a and the nearest     *)
(* present minute after it at position j with value b, takes the value     *)
(* a + (b - a) * (k - i) / (j - i), and every present minute keeps its     *)
(* value.                                                                  *)
(***************************************************************************)
C10_Interpolation ==
    (Done /\ args.fill = "interp") =>
        /\ Len(res.filled) = Len(res.series)
        /\ \A k \in 1..Len(res.series) :
              /\ k \notin MissingAt => res.filled[k].v = res.series[k].v
              /\ k \in MissingAt =>
                    \E i \in 1..(k - 1), j \in (k + 1)..Len(res.series) :
                        /\ i \notin MissingAt
                        /\ j \notin MissingAt
                        /\ \A m \in (i + 1)..(j - 1) : m \in MissingAt
                        /\ LET a == res.series[i].v
                               b == res.series[j].v
                           IN  res.filled[k].v
                                   = RatAdd(a, RatDivInt(RatMulInt(RatSub(b, a), k - i), j - i))

C10_Witness ==
    /\ Done
    /\ args.fill = "interp"
    /\ \E k \in MissingAt :
          /\ k + 1 \in MissingAt
          /\ k + 2 \in 1..Len(res.series) \ MissingAt
          /\ k - 1 \in 1..Len(res.series) \ MissingAt
          /\ res.series[k - 1].v = <<300, 1>>
          /\ res.series[k + 2].v = <<100, 1>>
          /\ res.filled[k].v = <<700, 3>>
          /\ res.filled[k + 1].v = <<500, 3>>

====
